---- MODULE Spec2Model ----
(***************************************************************************)
(* Model of the download completion monitor of urbanscene3d/download.py:   *)
(* FileDownloader.get_download_status, monitor_download_progress and       *)
(* wait_for_download_completion, run against a download directory that an  *)
(* external transfer actor (the browser) changes concurrently.             *)
(*                                                                         *)
(* File names are sequences of characters, so that endswith('.crdownload') *)
(* and filename[:-11] are computed as the code computes them.              *)
(***************************************************************************)
EXTENDS Integers, Sequences, FiniteSets, TLC

\* ------------------------------------------------------------------ bounds
MaxSize == 2          \* file sizes range over 0..MaxSize
MaxTime == 15         \* the clock stops advancing past MaxTime
MaxActorSteps == 3    \* file operations of the transfer actor during one run

\* ------------------------------------------------------- program constants
WaitSleep == 5        \* time.sleep(5) of the detailed waiting loop
CheckInterval == 5    \* check_interval=5 of monitor_download_progress
SimpleSleep == 10     \* time.sleep(10) of the simple loop
SuffixLen == 11       \* filename[:-11]
MaxChecks == 10       \* for i in range(10) of download_file
CheckSleep == 1       \* time.sleep(1) of download_file

\* ------------------------------------------------------------ file names
Suffix == <<".", "c", "r", "d", "o", "w", "n", "l", "o", "a", "d">>

Names == { <<"f">>, <<"b">> }

\* before_download.png
Screenshot == <<"s">>

FileNames == Names \cup { n \o Suffix : n \in Names } \cup { Suffix, Screenshot }

Timeouts == {0, 3, 12}

Absent == -1

\* str.endswith('.crdownload')
EndsWithCrdownload(filename) ==
    /\ Len(filename) >= Len(Suffix)
    /\ SubSeq(filename, Len(filename) - Len(Suffix) + 1, Len(filename)) = Suffix

\* filename[:-11]
StripSuffix(filename) ==
    IF Len(filename) > SuffixLen THEN SubSeq(filename, 1, Len(filename) - SuffixLen)
    ELSE << >>

\* ------------------------------------------------------------------ state
VARIABLES
    timeout,       \* argument timeout of wait_for_download_completion
    detailed,      \* argument detailed_monitoring
    dirExists,     \* does self.download_dir exist
    files,         \* directory content: file name -> size, or Absent
    subdirs,       \* the entries that are directories, not regular files
    actorSteps,    \* file operations the transfer actor has performed
    now,           \* time.time()
    start_time,    \* local start_time
    pc,            \* position of the monitor
    gsRet,         \* where get_download_status returns to
    listing,       \* entries of os.listdir not yet visited by the for loop
    cur,           \* entry between os.path.isfile and os.path.getsize
    status,        \* the status dict being built / last returned
    last_sizes,    \* local last_sizes of monitor_download_progress
    result,        \* value returned, or exception raised, by the monitor
    exitLine,      \* source line of the return / raise
    mainExit,      \* how main() left its try block
    interrupted,   \* a KeyboardInterrupt was delivered
    ticks,         \* number of snapshots the monitor has taken
    prevStatus,    \* the snapshot of the previous tick
    rates,         \* rate samples computed at the last tick: name -> <<bytes, dt>>
    hist,          \* observations accumulated over the run
    initial_files, \* download_file: the listing taken before the click
    current_files, \* download_file: the listing of the last check
    dfI,           \* download_file: the loop variable i
    dfChecks,      \* download_file: directory checks made after the click
    dfClickAt,     \* download_file: time of download_btn.click()
    browserReply   \* download_file: what the chrome.downloads query gave

vars == << timeout, detailed, dirExists, files, subdirs, actorSteps, now, start_time, pc, gsRet,
           listing, cur, status, last_sizes, result, exitLine, mainExit,
           interrupted, ticks, prevStatus, rates, hist,
           initial_files, current_files, dfI, dfChecks, dfClickAt, browserReply >>

envVars == << dirExists, files, subdirs, actorSteps >>
argVars == << timeout, detailed >>
scanVars == << gsRet, listing, cur, status >>
obsVars == << ticks, prevStatus, rates, hist >>
dfVars == << initial_files, current_files, dfI, dfChecks, dfClickAt, browserReply >>

\* the status dict as constructed at the top of get_download_status
EmptyStatus ==
    [ active_downloads |-> 0,
      completed_files |-> << >>,
      in_progress_files |-> << >>,
      file_sizes |-> << >>,
      total_size |-> 0 ]

NoFiles == [ f \in FileNames |-> Absent ]

InitHist ==
    [ allPartial |-> TRUE,       \* every snapshot so far showed a partial file
      everFile |-> FALSE,        \* some snapshot showed some file
      grew |-> {},               \* names whose partial grew between two ticks
      nonzeroRate |-> {},        \* names for which a nonzero rate was computed
      lateSnapshot |-> FALSE,    \* a snapshot was begun with elapsed >= timeout
      loopTicks |-> 0,           \* snapshots handled by monitor_download_progress
      grewInLoop |-> {},         \* names whose partial grew between two of those
      interruptAt |-> Absent ]   \* time of the KeyboardInterrupt

\* download_file has not run
DfIdle ==
    /\ initial_files = {}
    /\ current_files = {}
    /\ dfI = 0
    /\ dfChecks = 0
    /\ dfClickAt = 0
    /\ browserReply = "none"

Init ==
    /\ DfIdle
    /\ timeout \in Timeouts
    /\ detailed \in BOOLEAN
    /\ dirExists = TRUE
    /\ files \in { NoFiles,
                   [NoFiles EXCEPT ![<<"b">>] = 1],
                   [NoFiles EXCEPT ![<<"f">> \o Suffix] = 1] }
    /\ subdirs = {}
    /\ actorSteps = 0
    /\ now = 0
    /\ start_time = 0
    /\ pc = "start"
    /\ gsRet = "none"
    /\ listing = {}
    /\ cur = << >>
    /\ status = EmptyStatus
    /\ last_sizes = << >>
    /\ result = "none"
    /\ exitLine = 0
    /\ mainExit = "none"
    /\ interrupted = FALSE
    /\ ticks = 0
    /\ prevStatus = EmptyStatus
    /\ rates = << >>
    /\ hist = InitHist


\* ------------------------------------------------ reading a status dict
SeqToSet(seq) == { seq[i] : i \in DOMAIN seq }

ActiveNames(st) == { e.name : e \in SeqToSet(st.in_progress_files) }

CompletedNames(st) == { e.name : e \in SeqToSet(st.completed_files) }

\* current_size of the in-progress entry called name, or Absent
PartialSize(st, name) ==
    IF name \in ActiveNames(st)
    THEN (CHOOSE e \in SeqToSet(st.in_progress_files) : e.name = name).current_size
    ELSE Absent

Elapsed == now - start_time

\* ------------------------------------------------ the external transfer actor
Running == pc \notin {"done", "closed"}

\* the actor performs one more file operation while the monitor runs
ActorActs ==
    /\ Running
    /\ dirExists
    /\ actorSteps < MaxActorSteps
    /\ actorSteps' = actorSteps + 1

\* the browser creates name.crdownload
ActorCreatePartial ==
    /\ ActorActs
    /\ \E n \in Names :
         /\ files[n \o Suffix] = Absent
         /\ files' = [files EXCEPT ![n \o Suffix] = 0]
    /\ UNCHANGED << dirExists, subdirs, argVars, dfVars, now, start_time, pc, scanVars, last_sizes,
                    result, exitLine, mainExit, interrupted, obsVars >>

\* the browser appends to name.crdownload
ActorGrow ==
    /\ ActorActs
    /\ \E n \in Names :
         /\ files[n \o Suffix] # Absent
         /\ files[n \o Suffix] < MaxSize
         /\ files' = [files EXCEPT ![n \o Suffix] = @ + 1]
    /\ UNCHANGED << dirExists, subdirs, argVars, dfVars, now, start_time, pc, scanVars, last_sizes,
                    result, exitLine, mainExit, interrupted, obsVars >>

\* the browser renames name.crdownload to name
ActorFinalize ==
    /\ ActorActs
    /\ \E n \in Names :
         /\ files[n \o Suffix] # Absent
         /\ files' = [files EXCEPT ![n] = files[n \o Suffix], ![n \o Suffix] = Absent]
    /\ UNCHANGED << dirExists, subdirs, argVars, dfVars, now, start_time, pc, scanVars, last_sizes,
                    result, exitLine, mainExit, interrupted, obsVars >>

\* a complete file appears without ever having been partial
ActorCreateFile ==
    /\ ActorActs
    /\ \E n \in Names :
         /\ files[n] = Absent
         /\ files' = [files EXCEPT ![n] = 1]
    /\ UNCHANGED << dirExists, subdirs, argVars, dfVars, now, start_time, pc, scanVars, last_sizes,
                    result, exitLine, mainExit, interrupted, obsVars >>

\* an entry is removed (a cancelled transfer, a clean-up)
ActorRemove ==
    /\ ActorActs
    /\ \E f \in FileNames :
         /\ files[f] # Absent
         /\ files' = [files EXCEPT ![f] = Absent]
         /\ subdirs' = subdirs \ {f}
    /\ UNCHANGED << dirExists, argVars, dfVars, now, start_time, pc, scanVars, last_sizes,
                    result, exitLine, mainExit, interrupted, obsVars >>

\* the watched directory is removed
ActorRemoveDir ==
    /\ ActorActs
    /\ dirExists' = FALSE
    /\ files' = NoFiles
    /\ subdirs' = {}
    /\ UNCHANGED << argVars, dfVars, now, start_time, pc, scanVars, last_sizes,
                    result, exitLine, mainExit, interrupted, obsVars >>

\* ------------------------------------------------ leaving the monitor
\* return value / raise exc, at source line
Leave(value, line) ==
    /\ pc' = "done"
    /\ result' = value
    /\ exitLine' = line

\* observations recorded when a snapshot st is delivered to the loop
Observe(st) ==
    [ hist EXCEPT
        !.allPartial = @ /\ st.active_downloads > 0,
        !.everFile = @ \/ st.in_progress_files # << >> \/ st.completed_files # << >>,
        !.grew = @ \cup { n \in ActiveNames(st) :
                            /\ n \in ActiveNames(prevStatus)
                            /\ PartialSize(st, n) > PartialSize(prevStatus, n) } ]

\* ------------------------------------------------ get_download_status
\* the call: status = {...} and the scan begins
CallStatus(ret) ==
    /\ pc' = "gs_exists"
    /\ gsRet' = ret
    /\ status' = EmptyStatus
    /\ prevStatus' = status
    /\ listing' = {}
    /\ cur' = << >>
    /\ hist' = [hist EXCEPT !.lateSnapshot = @ \/ Elapsed >= timeout]

\* if not os.path.exists(self.download_dir): return status
GsExists ==
    /\ pc = "gs_exists"
    /\ IF dirExists
       THEN /\ pc' = "gs_listdir"
            /\ UNCHANGED << ticks, hist >>
       ELSE /\ pc' = gsRet
            /\ ticks' = ticks + 1
            /\ hist' = Observe(status)
    /\ UNCHANGED << envVars, argVars, dfVars, now, start_time, scanVars, last_sizes,
                    result, exitLine, mainExit, interrupted, prevStatus, rates >>

\* os.listdir(self.download_dir)
GsListdir ==
    /\ pc = "gs_listdir"
    /\ IF dirExists
       THEN /\ listing' = { f \in FileNames : files[f] # Absent }
            /\ pc' = "gs_loop"
            /\ UNCHANGED << result, exitLine >>
       ELSE /\ Leave("OSError", 159)
            /\ UNCHANGED listing
    /\ UNCHANGED << envVars, argVars, dfVars, now, start_time, gsRet, cur, status, last_sizes,
                    mainExit, interrupted, obsVars >>

AddInProgressNoTotal(st, filename, file_size) ==
    [ st EXCEPT
        !.in_progress_files = Append(@, [ name |-> StripSuffix(filename),
                                           temp_file |-> filename,
                                           current_size |-> file_size ]),
        !.active_downloads = @ + 1 ]

\* status after appending an in-progress entry
AddInProgress(st, filename, file_size) ==
    [ st EXCEPT
        !.in_progress_files = Append(@, [ name |-> StripSuffix(filename),
                                           temp_file |-> filename,
                                           current_size |-> file_size ]),
        !.active_downloads = @ + 1,
        !.total_size = @ + file_size ]

\* status after appending a completed entry
AddCompleted(st, filename, file_size) ==
    [ st EXCEPT
        !.completed_files = Append(@, [ name |-> filename, size |-> file_size ]),
        !.total_size = @ + file_size ]

\* the for loop has visited every entry: return status
GsReturn ==
    /\ pc = "gs_loop"
    /\ listing = {}
    /\ pc' = gsRet
    /\ ticks' = ticks + 1
    /\ hist' = Observe(status)
    /\ UNCHANGED << envVars, argVars, dfVars, now, start_time, scanVars, last_sizes,
                    result, exitLine, mainExit, interrupted, prevStatus, rates >>

\* one iteration on an entry ending in .crdownload: os.path.getsize(filepath)
GsPartialEntry ==
    /\ pc = "gs_loop"
    /\ \E filename \in listing :
         /\ EndsWithCrdownload(filename)
         /\ listing' = listing \ {filename}
         /\ IF files[filename] # Absent
            THEN /\ status' = AddInProgress(status, filename, files[filename])
                 /\ UNCHANGED << pc, result, exitLine >>
            ELSE /\ Leave("OSError", 165)
                 /\ UNCHANGED status
    /\ UNCHANGED << envVars, argVars, dfVars, now, start_time, gsRet, cur, last_sizes,
                    mainExit, interrupted, obsVars >>

\* os.path.isfile(filepath)
IsFile(filename) == files[filename] # Absent /\ filename \notin subdirs

\* one iteration on another entry: elif os.path.isfile(filepath)
GsIsFile ==
    /\ pc = "gs_loop"
    /\ \E filename \in listing :
         /\ ~EndsWithCrdownload(filename)
         /\ listing' = listing \ {filename}
         /\ IF IsFile(filename)
            THEN pc' = "gs_getsize" /\ cur' = filename
            ELSE UNCHANGED << pc, cur >>
    /\ UNCHANGED << envVars, argVars, dfVars, now, start_time, gsRet, status, last_sizes,
                    result, exitLine, mainExit, interrupted, obsVars >>

\* file_size = os.path.getsize(filepath) of a completed file
GsGetsize ==
    /\ pc = "gs_getsize"
    /\ IF files[cur] # Absent
       THEN /\ status' = AddCompleted(status, cur, files[cur])
            /\ pc' = "gs_loop"
            /\ UNCHANGED << result, exitLine >>
       ELSE /\ Leave("OSError", 177)
            /\ UNCHANGED status
    /\ cur' = << >>
    /\ UNCHANGED << envVars, argVars, dfVars, now, start_time, gsRet, listing, last_sizes,
                    mainExit, interrupted, obsVars >>


\* ------------------------------------------------ monitor_download_progress
\* the body of "for file_info in status['in_progress_files']" (lines 211-232),
\* run over files_seq at time t: the new last_sizes and the speeds computed
ProgressStepStale(file_info, ls, rs, t) ==
    LET filename == file_info.name
        current_size == file_info.current_size
        ls2 == (filename :> [ size |-> current_size, time |-> t ]) @@ ls
        known == filename \in DOMAIN ls
        bytes_downloaded == current_size - ls2[filename].size
        time_elapsed == t - ls[filename].time
        sampled == known /\ time_elapsed > 0
    IN  [ last_sizes |-> ls2,
          rates |-> IF sampled
                    THEN (filename :> [ bytes |-> bytes_downloaded,
                                        dt |-> time_elapsed ]) @@ rs
                    ELSE rs ]

ProgressStepNoDelta(file_info, ls, rs, t) ==
    LET filename == file_info.name
        current_size == file_info.current_size
        known == filename \in DOMAIN ls
        bytes_downloaded == current_size
        time_elapsed == t - ls[filename].time
        sampled == known /\ time_elapsed > 0
    IN  [ last_sizes |-> (filename :> [ size |-> current_size, time |-> t ]) @@ ls,
          rates |-> IF sampled
                    THEN (filename :> [ bytes |-> bytes_downloaded,
                                        dt |-> time_elapsed ]) @@ rs
                    ELSE rs ]

\* one iteration of "for file_info in status['in_progress_files']" (212-232)
\* at time t: the new last_sizes and the speeds computed so far
ProgressStep(file_info, ls, rs, t) ==
    LET filename == file_info.name
        current_size == file_info.current_size
        known == filename \in DOMAIN ls
        bytes_downloaded == current_size - ls[filename].size
        time_elapsed == t - ls[filename].time
        sampled == known /\ time_elapsed > 0
    IN  [ last_sizes |-> (filename :> [ size |-> current_size, time |-> t ]) @@ ls,
          rates |-> IF sampled
                    THEN (filename :> [ bytes |-> bytes_downloaded,
                                        dt |-> time_elapsed ]) @@ rs
                    ELSE rs ]

\* the whole for loop of line 211 over files_seq
RECURSIVE ProgressLoop(_, _, _, _)
ProgressLoop(files_seq, ls, rs, t) ==
    IF files_seq = << >>
    THEN [ last_sizes |-> ls, rates |-> rs ]
    ELSE LET r == ProgressStep(Head(files_seq), ls, rs, t)
         IN  ProgressLoop(Tail(files_seq), r.last_sizes, r.rates, t)

\* speed_bps = bytes_downloaded / time_elapsed is zero exactly when no byte arrived
SpeedIsZero(sample) == sample.bytes = 0

\* last_sizes = {} ; while True: status = self.get_download_status()
MonitorTop ==
    /\ pc = "m_top"
    /\ CallStatus("m_decide")
    /\ UNCHANGED << envVars, argVars, dfVars, now, start_time, last_sizes,
                    result, exitLine, mainExit, interrupted, ticks, rates >>

\* what monitor_download_progress does with a status (lines 200-232)
MonitorReturnsTrue(st) ==
    st.active_downloads = 0 /\ st.completed_files # << >>

MonitorDecide ==
    /\ pc = "m_decide"
    /\ IF status.active_downloads = 0
       THEN /\ IF MonitorReturnsTrue(status)
               THEN Leave("True", 263)
               ELSE pc' = "m_sleep" /\ UNCHANGED << result, exitLine >>
            /\ rates' = << >>
            /\ hist' = [hist EXCEPT !.loopTicks = @ + 1]
            /\ UNCHANGED last_sizes
       ELSE LET r == ProgressLoop(status.in_progress_files, last_sizes, << >>, now)
            IN  /\ last_sizes' = r.last_sizes
                /\ rates' = r.rates
                /\ hist' = [hist EXCEPT
                              !.loopTicks = @ + 1,
                              !.grewInLoop = @ \cup
                                  { n \in ActiveNames(status) :
                                      /\ hist.loopTicks >= 1
                                      /\ n \in ActiveNames(prevStatus)
                                      /\ PartialSize(status, n) > PartialSize(prevStatus, n) },
                              !.nonzeroRate = @ \cup { n \in DOMAIN r.rates :
                                                         ~SpeedIsZero(r.rates[n]) }]
                /\ pc' = "m_sleep"
                /\ UNCHANGED << result, exitLine >>
    /\ UNCHANGED << envVars, argVars, dfVars, now, start_time, scanVars,
                    mainExit, interrupted, ticks, prevStatus >>

\* time.sleep(check_interval)
MonitorSleep ==
    /\ pc = "m_sleep"
    /\ now + CheckInterval <= MaxTime
    /\ now' = now + CheckInterval
    /\ pc' = "m_top"
    /\ UNCHANGED << envVars, argVars, dfVars, start_time, scanVars, last_sizes,
                    result, exitLine, mainExit, interrupted, obsVars >>

\* ------------------------------------------------ wait_for_download_completion
\* if detailed_monitoring: start_time = time.time() / else: start_time = time.time()
Start ==
    /\ pc = "start"
    /\ start_time' = now
    /\ pc' = IF detailed THEN "w_check" ELSE "s_check"
    /\ UNCHANGED << envVars, argVars, dfVars, now, scanVars, last_sizes,
                    result, exitLine, mainExit, interrupted, obsVars >>

\* while time.time() - start_time < timeout: status = self.get_download_status()
WaitCheck ==
    /\ pc = "w_check"
    /\ IF Elapsed < timeout
       THEN /\ CallStatus("w_decide")
            /\ UNCHANGED << result, exitLine >>
       ELSE /\ Leave("False", 287)
            /\ UNCHANGED << scanVars, prevStatus, hist >>
    /\ UNCHANGED << envVars, argVars, dfVars, now, start_time, last_sizes,
                    mainExit, interrupted, ticks, rates >>

\* lines 252-263
WaitReturnsTrue(st) ==
    st.active_downloads = 0 /\ st.completed_files # << >>

WaitDecide ==
    /\ pc = "w_decide"
    /\ IF WaitReturnsTrue(status)
       THEN /\ Leave("True", 254)
            /\ UNCHANGED last_sizes
       ELSE IF status.active_downloads > 0
       THEN /\ pc' = "m_top"
            /\ last_sizes' = << >>
            /\ UNCHANGED << result, exitLine >>
       ELSE /\ pc' = "w_sleep"
            /\ UNCHANGED << last_sizes, result, exitLine >>
    /\ UNCHANGED << envVars, argVars, dfVars, now, start_time, scanVars,
                    mainExit, interrupted, obsVars >>

\* time.sleep(5)
WaitSleepStep ==
    /\ pc = "w_sleep"
    /\ now + WaitSleep <= MaxTime
    /\ now' = now + WaitSleep
    /\ pc' = "w_check"
    /\ UNCHANGED << envVars, argVars, dfVars, start_time, scanVars, last_sizes,
                    result, exitLine, mainExit, interrupted, obsVars >>

\* the simple method: while time.time() - start_time < timeout
SimpleCheck ==
    /\ pc = "s_check"
    /\ IF Elapsed < timeout
       THEN /\ pc' = "s_list"
            /\ hist' = [hist EXCEPT !.lateSnapshot = @ \/ Elapsed >= timeout]
            /\ UNCHANGED << result, exitLine >>
       ELSE /\ Leave("False", 287)
            /\ UNCHANGED hist
    /\ UNCHANGED << envVars, argVars, dfVars, now, start_time, scanVars, last_sizes,
                    mainExit, interrupted, ticks, prevStatus, rates >>

\* [f for f in os.listdir(self.download_dir) if f.endswith('.crdownload')]
CrdownloadFiles == { f \in FileNames : files[f] # Absent /\ EndsWithCrdownload(f) }

\* lines 277-283
SimpleList ==
    /\ pc = "s_list"
    /\ IF ~dirExists
       THEN /\ Leave("OSError", 277)
            /\ UNCHANGED << ticks, hist >>
       ELSE /\ IF CrdownloadFiles = {}
               THEN Leave("True", 281)
               ELSE pc' = "s_sleep" /\ UNCHANGED << result, exitLine >>
            /\ ticks' = ticks + 1
            /\ hist' = [hist EXCEPT
                          !.allPartial = @ /\ CrdownloadFiles # {},
                          !.everFile = @ \/ \E f \in FileNames : files[f] # Absent]
    /\ UNCHANGED << envVars, argVars, dfVars, now, start_time, scanVars, last_sizes,
                    mainExit, interrupted, prevStatus, rates >>

\* time.sleep(10)
SimpleSleepStep ==
    /\ pc = "s_sleep"
    /\ now + SimpleSleep <= MaxTime
    /\ now' = now + SimpleSleep
    /\ pc' = "s_check"
    /\ UNCHANGED << envVars, argVars, dfVars, start_time, scanVars, last_sizes,
                    result, exitLine, mainExit, interrupted, obsVars >>

\* the try block of the detailed mode spans lines 249-266
InTry == detailed /\ pc # "start"

\* the user presses Ctrl-C: except KeyboardInterrupt (268-270), or the
\* exception leaves wait_for_download_completion
Interrupt ==
    /\ Running
    /\ ~interrupted
    /\ interrupted' = TRUE
    /\ hist' = [hist EXCEPT !.interruptAt = now]
    /\ IF InTry THEN Leave("False", 270) ELSE Leave("KeyboardInterrupt", 0)
    /\ UNCHANGED << envVars, argVars, dfVars, now, start_time, scanVars, last_sizes,
                    mainExit, ticks, prevStatus, rates >>

\* main(): try / except KeyboardInterrupt / except Exception / finally close()
MainExitOf(res) ==
    CASE res = "KeyboardInterrupt" -> "interrupted"
      [] res = "OSError" -> "unexpected_error"
      [] OTHER -> "returned"

MainFinish ==
    /\ pc = "done"
    /\ pc' = "closed"
    /\ mainExit' = MainExitOf(result)
    /\ UNCHANGED << envVars, argVars, dfVars, now, start_time, scanVars, last_sizes,
                    result, exitLine, interrupted, obsVars >>

Next ==
    \/ Start
    \/ WaitCheck \/ WaitDecide \/ WaitSleepStep
    \/ MonitorTop \/ MonitorDecide \/ MonitorSleep
    \/ GsExists \/ GsListdir \/ GsPartialEntry \/ GsIsFile \/ GsGetsize \/ GsReturn
    \/ SimpleCheck \/ SimpleList \/ SimpleSleepStep
    \/ Interrupt
    \/ MainFinish
    \/ ActorCreatePartial \/ ActorGrow \/ ActorFinalize
    \/ ActorCreateFile \/ ActorRemove \/ ActorRemoveDir

Spec == Init /\ [][Next]_vars


\* ------------------------------------------------ vocabulary of the claims
Finished == pc \in {"done", "closed"}

\* the monitor returned a value (it did not raise)
Returned == Finished /\ result \in {"True", "False"}

Completed == Finished /\ result = "True"

\* "Download timeout reached": the return of line 287 (TimedOut / NoActivity)
TimeoutReturn == Finished /\ result = "False" /\ exitLine = 287

\* the outcome of a KeyboardInterrupt
Cancelled == Finished /\ interrupted

\* positions inside get_download_status, where status is still being built
ScanPcs == {"gs_exists", "gs_listdir", "gs_loop", "gs_getsize"}

\* status holds a whole snapshot that the loop has already acted on
Decided ==
    /\ detailed
    /\ ticks > 0
    /\ pc \in {"w_sleep", "w_check", "m_sleep", "m_top", "done", "closed"}
    /\ result # "OSError"
    /\ ~interrupted

\* the poll interval of the loop the monitor is in
PollInterval == IF detailed THEN CheckInterval ELSE SimpleSleep

\* C1: while a partial file is present at every tick, the monitor returns
\* TimedOut once elapsed >= timeout: past the timeout it is either at the test
\* of its loop or has returned through line 287, it does not poll again.
C1_TimeoutEnforcedInProgress ==
    ( /\ ticks > 0
      /\ hist.allPartial
      /\ ~interrupted
      /\ result # "OSError"
      /\ Elapsed >= timeout )
    => ( \/ pc \in {"w_check", "s_check"}
         \/ TimeoutReturn )

\* C2: a run whose directory never holds a file ends with the timeout return
\* at or after timeout; a timeout return happens only with elapsed >= timeout
\* and an earlier return is Completed or Cancelled. Both modes.
C2_NoActivityOnlyAtTimeout ==
    /\ ( Finished /\ ~interrupted /\ files = NoFiles /\ actorSteps = 0 )
         => ( TimeoutReturn /\ Elapsed >= timeout )
    /\ TimeoutReturn => Elapsed >= timeout
    /\ ( Returned /\ Elapsed < timeout ) => ( Completed \/ Cancelled )

\* C3: the monitor returns Completed only if some file was ever observed, no
\* partial file is present and a complete file exists. Every return path.
C3_CompletedOnlyAfterTransfer ==
    Completed =>
       /\ hist.everFile
       /\ IF detailed
          THEN status.active_downloads = 0 /\ status.completed_files # << >>
          ELSE /\ CrdownloadFiles = {}
               /\ \E f \in FileNames : files[f] # Absent


\* how many entries of completed_files carry this name
CompletedCount(st, name) ==
    Cardinality({ i \in DOMAIN st.completed_files : st.completed_files[i].name = name })

\* at the last tick the partial file of name was gone and name was complete,
\* with no other transfer active, before the timeout
JustCompleted(name) ==
    /\ Decided
    /\ Elapsed < timeout
    /\ name \in ActiveNames(prevStatus)
    /\ name \notin ActiveNames(status)
    /\ name \in CompletedNames(status)
    /\ status.active_downloads = 0

KnownNames(st) == ActiveNames(st) \cup CompletedNames(st)

\* C5: from one tick to the next the known names (active, completed, and those
\* kept in last_sizes) never shrink, and no name is both active and completed.
C5_TransfersNeverForgotten ==
    Decided =>
       /\ KnownNames(prevStatus) \subseteq ( KnownNames(status) \cup DOMAIN last_sizes )
       /\ ActiveNames(status) \cap CompletedNames(status) = {}

\* C6: a KeyboardInterrupt ends the run within one poll interval with an
\* outcome that differs from the value of the timeout return.
C6_CancelledIsDistinct ==
    Cancelled =>
       /\ now - hist.interruptAt <= PollInterval
       /\ result # "False"

\* C7: an entry that vanishes between os.listdir and its size query is skipped;
\* the monitor is never left through the getsize of lines 165 and 177.
C7_EntryFailureIsAbsorbed ==
    Finished => ~( result = "OSError" /\ exitLine \in {165, 177} )

\* C8: once the directory is removed every tick sees an empty snapshot and the
\* run ends with a normal result, in both modes.
C8_RemovedDirectoryIsNoActivity ==
    ( Finished /\ ~dirExists /\ ~interrupted ) => Returned

\* C9: with an invalid configuration (timeout <= 0, pollInterval <= 0 or
\* timeout < pollInterval) no snapshot is taken and no normal terminal result
\* (no timeout in particular) is returned.
C9_InvalidConfigurationRejected ==
    ( timeout <= 0 \/ PollInterval <= 0 \/ timeout < PollInterval ) =>
       /\ ticks = 0
       /\ pc \notin ScanPcs \cup {"s_list"}
       /\ ~Returned

DirectoryComplete ==
    /\ dirExists
    /\ CrdownloadFiles = {}
    /\ \E f \in FileNames : IsFile(f)

\* C11: at each tick the directory is examined before the timeout is tested:
\* a run that has polled never ends with the timeout return while the
\* directory shows every transfer complete and at least one file.
C11_CompletedBeforeTimeout ==
    ( TimeoutReturn /\ ticks > 0 ) => ~DirectoryComplete


\* ------------------------------------------------ get_download_status alone
\* one call of get_download_status on a directory that nobody changes: the
\* directory is missing, or holds any mix of regular files and directories
InitStatus ==
    /\ DfIdle
    /\ timeout = 12
    /\ detailed = TRUE
    /\ dirExists \in BOOLEAN
    /\ files \in [ FileNames -> {Absent, 1, MaxSize} ]
    /\ dirExists = FALSE => files = NoFiles
    /\ files[Screenshot] = Absent
    /\ subdirs \in SUBSET { f \in FileNames : files[f] # Absent }
    /\ actorSteps = 0
    /\ now = 0
    /\ start_time = 0
    /\ pc = "start"
    /\ gsRet = "none"
    /\ listing = {}
    /\ cur = << >>
    /\ status = EmptyStatus
    /\ last_sizes = << >>
    /\ result = "none"
    /\ exitLine = 0
    /\ mainExit = "none"
    /\ interrupted = FALSE
    /\ ticks = 0
    /\ prevStatus = EmptyStatus
    /\ rates = << >>
    /\ hist = InitHist

NextStatus ==
    \/ Start
    \/ WaitCheck
    \/ GsExists \/ GsListdir \/ GsPartialEntry \/ GsIsFile \/ GsGetsize \/ GsReturn

SpecStatus == InitStatus /\ [][NextStatus]_vars

RECURSIVE SumOf(_)
SumOf(seq) == IF seq = << >> THEN 0 ELSE Head(seq) + SumOf(Tail(seq))

\* the entries of the directory
Entries == { f \in FileNames : files[f] # Absent }

\* C12: the status returned for a directory satisfies active_downloads =
\* number of in_progress_files, total_size = sum of their current_size plus
\* the sum of size over completed_files, file_sizes is empty, each entry
\* ending in .crdownload is in in_progress_files exactly once under its name
\* without the 11-character suffix, each other regular file is in
\* completed_files exactly once, other entries are in neither; a missing
\* directory gives the empty status.
C12_StatusAccounting ==
    ( pc = "w_decide" ) =>
       LET ip == status.in_progress_files
           cf == status.completed_files
       IN  /\ status.active_downloads = Len(ip)
           /\ status.total_size =
                 SumOf([ i \in DOMAIN ip |-> ip[i].current_size ])
                 + SumOf([ i \in DOMAIN cf |-> cf[i].size ])
           /\ status.file_sizes = << >>
           /\ \A f \in Entries :
                 LET asPartial == { i \in DOMAIN ip : ip[i].temp_file = f }
                     asComplete == { i \in DOMAIN cf : cf[i].name = f }
                 IN  IF Len(f) >= 11 /\ SubSeq(f, Len(f) - 10, Len(f)) = Suffix
                     THEN /\ Cardinality(asPartial) = 1
                          /\ asComplete = {}
                          /\ \A i \in asPartial :
                                /\ ip[i].name \o Suffix = f
                                /\ Len(ip[i].name) = Len(f) - 11
                                /\ ip[i].current_size = files[f]
                     ELSE /\ asPartial = {}
                          /\ IF f \in subdirs
                             THEN asComplete = {}
                             ELSE /\ Cardinality(asComplete) = 1
                                  /\ \A i \in asComplete : cf[i].size = files[f]
           /\ \A i \in DOMAIN ip : ip[i].temp_file \in Entries
           /\ \A i \in DOMAIN cf : cf[i].name \in Entries
           /\ ~dirExists => status = EmptyStatus

\* a status listing a partial entry, a regular file and skipping a directory
C12_Witness ==
    /\ pc = "w_decide"
    /\ status.active_downloads = 2
    /\ Len(status.completed_files) = 1
    /\ status.total_size = MaxSize + 2
    /\ Suffix \in Entries
    /\ \E f \in subdirs : ~EndsWithCrdownload(f)
    /\ \E f \in subdirs : EndsWithCrdownload(f)


\* ------------------------------------------------ download_file
monVars == << start_time, scanVars, last_sizes, mainExit, interrupted, obsVars >>

\* self.driver.get(url) and the wait for the page body (77-83); a
\* TimeoutException is answered by return False (131-133)
DfNavigate ==
    /\ pc = "df_start"
    /\ \E loaded \in BOOLEAN :
         IF loaded
         THEN pc' = "df_screenshot" /\ UNCHANGED << result, exitLine >>
         ELSE Leave("False", 133)
    /\ UNCHANGED << envVars, argVars, dfVars, now, monVars >>

\* self.driver.save_screenshot(screenshot_path) (86-87)
DfScreenshot ==
    /\ pc = "df_screenshot"
    /\ files' = IF dirExists THEN [files EXCEPT ![Screenshot] = 1] ELSE files
    /\ pc' = "df_find"
    /\ UNCHANGED << dirExists, subdirs, actorSteps, argVars, dfVars, now, monVars,
                    result, exitLine >>

\* the wait for the download button to be clickable (91-94)
DfFindButton ==
    /\ pc = "df_find"
    /\ \E found \in BOOLEAN :
         IF found
         THEN pc' = "df_initial_exists" /\ UNCHANGED << result, exitLine >>
         ELSE Leave("False", 133)
    /\ UNCHANGED << envVars, argVars, dfVars, now, monVars >>

\* initial_files = ... if os.path.exists(self.download_dir) else set()
DfInitialExists ==
    /\ pc = "df_initial_exists"
    /\ IF dirExists
       THEN pc' = "df_initial_list" /\ UNCHANGED initial_files
       ELSE pc' = "df_click" /\ initial_files' = {}
    /\ UNCHANGED << envVars, argVars, current_files, dfI, dfChecks, dfClickAt,
                    browserReply, now, monVars, result, exitLine >>

\* set(os.listdir(self.download_dir)) of line 99; an OSError is answered by
\* "except Exception: return False" (137-139)
DfInitialList ==
    /\ pc = "df_initial_list"
    /\ IF dirExists
       THEN /\ initial_files' = { f \in FileNames : files[f] # Absent }
            /\ pc' = "df_click"
            /\ UNCHANGED << result, exitLine >>
       ELSE /\ Leave("False", 139)
            /\ UNCHANGED initial_files
    /\ UNCHANGED << envVars, argVars, current_files, dfI, dfChecks, dfClickAt,
                    browserReply, now, monVars >>

\* download_btn.click() and the entry into "for i in range(10)"
DfClick ==
    /\ pc = "df_click"
    /\ dfClickAt' = now
    /\ dfI' = 0
    /\ pc' = "df_sleep"
    /\ UNCHANGED << envVars, argVars, initial_files, current_files, dfChecks,
                    browserReply, now, monVars, result, exitLine >>

\* the next iteration: time.sleep(1)
DfSleep ==
    /\ pc = "df_sleep"
    /\ dfI < MaxChecks
    /\ now + CheckSleep <= MaxTime
    /\ now' = now + CheckSleep
    /\ pc' = "df_exists"
    /\ UNCHANGED << envVars, argVars, dfVars, monVars, result, exitLine >>

\* range(10) is exhausted
DfLoopExit ==
    /\ pc = "df_sleep"
    /\ dfI >= MaxChecks
    /\ pc' = "df_query"
    /\ UNCHANGED << envVars, argVars, dfVars, now, monVars, result, exitLine >>

DetectsDownloadNewOnly(initial, current) ==
    LET new_files == current \ initial
    IN  new_files # {}

\* if new_files or crdownload_files (108-111)
DetectsDownload(initial, current) ==
    LET new_files == current \ initial
        crdownload_files == { f \in current : EndsWithCrdownload(f) }
    IN  new_files # {} \/ crdownload_files # {}

\* lines 108-116 on the listing current: return True, or the next iteration
DfDecide(current) ==
    /\ current_files' = current
    /\ dfChecks' = dfChecks + 1
    /\ IF DetectsDownload(initial_files, current)
       THEN /\ Leave("True", 116)
            /\ UNCHANGED dfI
       ELSE /\ dfI' = dfI + 1
            /\ pc' = "df_sleep"
            /\ UNCHANGED << result, exitLine >>

\* current_files = ... if os.path.exists(self.download_dir) else set()
DfExists ==
    /\ pc = "df_exists"
    /\ IF dirExists
       THEN /\ pc' = "df_list"
            /\ UNCHANGED << current_files, dfChecks, dfI, result, exitLine >>
       ELSE DfDecide({})
    /\ UNCHANGED << envVars, argVars, initial_files, dfClickAt, browserReply,
                    now, monVars >>

\* set(os.listdir(self.download_dir)) of line 107, and lines 108-116
DfList ==
    /\ pc = "df_list"
    /\ IF dirExists
       THEN DfDecide({ f \in FileNames : files[f] # Absent })
       ELSE /\ Leave("False", 139)
            /\ UNCHANGED << current_files, dfChecks, dfI >>
    /\ UNCHANGED << envVars, argVars, initial_files, dfClickAt, browserReply,
                    now, monVars >>

\* the chrome.downloads query (119-129): downloads reported, none, or an error
DfQuery ==
    /\ pc = "df_query"
    /\ \E reply \in {"some", "none", "error"} :
         /\ browserReply' = reply
         /\ IF reply = "some" THEN Leave("True", 124) ELSE Leave("False", 129)
    /\ UNCHANGED << envVars, argVars, initial_files, current_files, dfI, dfChecks,
                    dfClickAt, now, monVars >>

\* download_file is called; a partial file or an older file may be there
InitDownload ==
    /\ timeout = 12
    /\ detailed = TRUE
    /\ dirExists = TRUE
    /\ files \in { NoFiles,
                   [NoFiles EXCEPT ![<<"b">>] = 1],
                   [NoFiles EXCEPT ![<<"f">> \o Suffix] = 1] }
    /\ subdirs = {}
    /\ actorSteps = 0
    /\ now = 0
    /\ start_time = 0
    /\ pc = "df_start"
    /\ gsRet = "none"
    /\ listing = {}
    /\ cur = << >>
    /\ status = EmptyStatus
    /\ last_sizes = << >>
    /\ result = "none"
    /\ exitLine = 0
    /\ mainExit = "none"
    /\ interrupted = FALSE
    /\ ticks = 0
    /\ prevStatus = EmptyStatus
    /\ rates = << >>
    /\ hist = InitHist
    /\ DfIdle

NextDownload ==
    \/ DfNavigate \/ DfScreenshot \/ DfFindButton
    \/ DfInitialExists \/ DfInitialList \/ DfClick
    \/ DfSleep \/ DfLoopExit \/ DfExists \/ DfList \/ DfQuery
    \/ ActorCreatePartial \/ ActorGrow \/ ActorFinalize
    \/ ActorCreateFile \/ ActorRemove \/ ActorRemoveDir

SpecDownload == InitDownload /\ [][NextDownload]_vars

\* the last check saw a name that the pre-click listing lacks, or a name with
\* the 11 characters .crdownload at its end
SawActivity ==
    \/ \E f \in current_files : f \notin initial_files
    \/ \E f \in current_files :
          Len(f) >= 11 /\ SubSeq(f, Len(f) - 10, Len(f)) = Suffix

\* C13: after the click download_file checks the directory at most 10 times,
\* one second apart, and returns True at the first check that sees a name
\* absent from the pre-click listing or any .crdownload entry (also one that
\* was there before the click); after 10 checks that saw neither it returns
\* False unless the browser reports downloads; the screenshot is never a new
\* file.
C13_DownloadInitiationDetected ==
    /\ dfChecks <= 10
    /\ ( pc = "df_sleep" ) => ( now - dfClickAt = dfChecks /\ dfI = dfChecks )
    /\ ( pc = "df_sleep" /\ dfChecks >= 1 ) => ~SawActivity
    /\ ( dfChecks >= 1 /\ SawActivity ) => ( Finished /\ result = "True" /\ exitLine = 116 )
    /\ ( Finished /\ exitLine = 116 ) => ( result = "True" /\ dfChecks >= 1 /\ SawActivity )
    /\ ( pc = "df_query" ) => ( dfChecks = 10 /\ ~SawActivity )
    /\ ( Finished /\ exitLine \in {124, 129} ) =>
          /\ dfChecks = 10
          /\ ~SawActivity
          /\ result = ( IF browserReply = "some" THEN "True" ELSE "False" )
    /\ ~( Screenshot \in current_files /\ Screenshot \notin initial_files )

\* the first check returns True on a partial file that was there before the
\* click, with no new name and the screenshot in both listings
C13_Witness ==
    /\ Finished
    /\ result = "True"
    /\ exitLine = 116
    /\ dfChecks = 1
    /\ current_files = initial_files
    /\ Screenshot \in current_files
    /\ <<"f">> \o Suffix \in initial_files

====
